---- MODULE Spec2Model ----
(***************************************************************************)
(* Model of production_app.py: the background monitoring loop              *)
(* (background_monitoring / process_index_data), the ledger                *)
(* (processed_candles and alerts tables), Telegram delivery with retries,  *)
(* and the start/stop/auto-start entry points that launch the loop.        *)
(*                                                                         *)
(* Each background_monitoring thread advances one access to shared state   *)
(* (a global, the database, an external service) at a time.  A request     *)
(* handler (start_monitoring, stop_monitoring) is one step: with one       *)
(* handler at a time, its test and its write of is_monitoring interleave   *)
(* with the other threads as the single step does.  auto_start_monitoring  *)
(* tests and writes the flag in two steps.  Thread.start() is taken to     *)
(* succeed; the global monitor_thread is written and never read, and is    *)
(* left out.  Prices are in hundredths of a point.                         *)
(*                                                                         *)
(* Spec         the program, with a ledger that may fail MaxFaults times   *)
(* SpecReliable the program, with a ledger that never fails                *)
(* SpecDeliver  send_telegram_message over every sequence of outcomes      *)
(* SpecHistory  the alert history under MaxPushes pushes                   *)
(* SpecDecide   one cycle of one loop over closes around the thresholds    *)
(* SpecGate     is_market_open over readings of the clock                  *)
(* SpecKey      the candle_id of two polls of one minute                   *)
(* SpecAlone    the program left alone: auto-start, no request             *)
(* SpecLive     SpecAlone with a ledger that never fails and fair threads  *)
(***************************************************************************)
EXTENDS Integers, Sequences, FiniteSets, TLC

\* ------------------------------------------------------------------ bounds
\* Thread slots for background_monitoring threads alive at the same time.
MaxLoops == 2
\* The feed's clock runs over the minute buckets 0..MaxMinute.
MaxMinute == 0
\* Number of ledger (sqlite) operations that may fail in one behaviour.
MaxFaults == 1
\* Number of monitoring cycles begun in one behaviour, over all threads.
MaxCycles == 2
\* Number of pushes applied to the alert history in SpecHistory.
MaxPushes == 60

\* ------------------------------------------------------- program constants
NIFTY_THRESHOLD == 800
SENSEX_THRESHOLD == 1200
\* for attempt in range(5)
MaxAttempts == 5
\* if len(alerts_history) > 50: alerts_history = alerts_history[-50:]
HistoryCap == 50
\* IST = UTC + 5:30, in seconds
IstOffset == 19800
\* 09:15:00 as seconds of the day (the first minute bucket of the feed)
SessionStart == 33300
\* time.sleep(10) at the end of a cycle
IdlePeriod == 10

VARIABLES
    is_monitoring,      \* global is_monitoring
    current_price,      \* global current_price
    last_update,        \* global last_update (Never stands for None)
    alerts_history,     \* global alerts_history
    processed_candles,  \* table processed_candles: candle_id -> row, or NoRow
    alerts,             \* table alerts, in insertion order
    pc,                 \* position of each background_monitoring thread
    loc,                \* locals of each background_monitoring thread
    resp,               \* status returned by the request handled in the last step
    apc,                \* position of the auto_start_monitoring thread
    minute,             \* the feed's current minute bucket
    faults,             \* ledger failures still to come
    cycles,             \* monitoring cycles begun so far
    notified,           \* observation: send_telegram_message calls per candle_id
    recorded,           \* observation: candle_ids save_processed_candle was called for
    stale,              \* observation: loops inside a cycle when stop cleared the flag
    pushed,             \* SpecHistory: number of pushes applied
    d_in,               \* SpecDeliver: outcome of each attempt
    d_out,              \* SpecDeliver: what send_telegram_message did
    g_in,               \* SpecGate: the reading of the clock
    g_out,              \* SpecGate: what is_market_open did
    k_in,               \* SpecKey: the index name and the stamps of two polls
    k_out               \* SpecKey: the candle_id of each poll

vars == << is_monitoring, current_price, last_update, alerts_history,
           processed_candles, alerts, pc, loc, resp, apc, minute, faults,
           cycles, notified, recorded, stale, pushed, d_in, d_out,
           g_in, g_out, k_in, k_out >>

Loops == 1..MaxLoops

\* last_update = None: no poll has got a payload yet.  The polls write the
\* minute of the feed, which is never negative.
Never == 0 - 1

\* The tracked instruments, in the order background_monitoring processes them.
Instruments ==
    << [symbol |-> "^NSEI",  index_name |-> "NIFTY 50",   threshold |-> NIFTY_THRESHOLD],
       [symbol |-> "^BSESN", index_name |-> "BSE SENSEX", threshold |-> SENSEX_THRESHOLD] >>

IndexNames == { Instruments[i].index_name : i \in 1..Len(Instruments) }

Abs(x) == IF x < 0 THEN -x ELSE x

Min(a, b) == IF a < b THEN a ELSE b

Pow2(n) == IF n = 0 THEN 1 ELSE IF n = 1 THEN 2 ELSE IF n = 2 THEN 4
           ELSE IF n = 3 THEN 8 ELSE IF n = 4 THEN 16 ELSE 32

\* ------------------------------------------------ send_telegram_message
\* What one requests.post can do: status 200, another 2xx status, a status
\* outside 2xx, or an exception (timeout, connection error).
Outcomes == { "200", "2xx", "non2xx", "error" }

OutcomeSeqs == [ 1..MaxAttempts -> Outcomes ]

OutcomeAt(o, k) == IF k \in DOMAIN o THEN o[k] ELSE "error"

\* The for loop of send_telegram_message from attempt number a (0-based), with
\* the sleeps made so far: one entry per failed attempt, 0 where the code
\* goes to the next attempt without sleeping.
\* The result says what the call returned (ok), whether it raised instead,
\* how many requests it made, and the sleeps.
RECURSIVE send_from(_, _, _)
send_from(o, a, sleeps) ==
    IF a >= MaxAttempts
    THEN [ ok |-> FALSE, raised |-> FALSE, attempts |-> a, sleeps |-> sleeps ]
    ELSE IF OutcomeAt(o, a + 1) = "200"
         THEN [ ok |-> TRUE, raised |-> FALSE, attempts |-> a + 1, sleeps |-> sleeps ]
         ELSE IF OutcomeAt(o, a + 1) = "error"
              THEN send_from(o, a + 1, Append(sleeps, Pow2(a)))
              ELSE send_from(o, a + 1, Append(sleeps, 0))

\* Mutant: the request is made outside the try, so an exception leaves the call.
RECURSIVE send_from_uncaught(_, _, _)
send_from_uncaught(o, a, sleeps) ==
    IF a >= MaxAttempts
    THEN [ ok |-> FALSE, raised |-> FALSE, attempts |-> a, sleeps |-> sleeps ]
    ELSE IF OutcomeAt(o, a + 1) = "200"
         THEN [ ok |-> TRUE, raised |-> FALSE, attempts |-> a + 1, sleeps |-> sleeps ]
         ELSE IF OutcomeAt(o, a + 1) = "error"
              THEN [ ok |-> FALSE, raised |-> TRUE, attempts |-> a + 1, sleeps |-> sleeps ]
              ELSE send_from_uncaught(o, a + 1, Append(sleeps, 0))

send_telegram_message_uncaught(o) == send_from_uncaught(o, 0, << >>)

send_telegram_message(o) == send_from(o, 0, << >>)

\* The values send_telegram_message can return, over all outcome sequences.
DeliveryResults == { send_telegram_message(o).ok : o \in OutcomeSeqs }

\* ------------------------------------------------------------ the ledger
NoRow == [ none |-> TRUE ]

NoResponse == [ op |-> "none", status |-> "none" ]

CandleTimes == 0..MaxMinute

CandleIds == IndexNames \X CandleTimes

\* A sqlite operation either succeeds or raises; it can raise only while the
\* behaviour has failures left.
LedgerOutcomes == IF faults > 0 THEN { TRUE, FALSE } ELSE { TRUE }

UseFault(ok) == IF ok THEN faults ELSE faults - 1

\* Mutant: a storage failure of the check reads as already processed.
is_candle_processed_or_error(candle_id, ok) ==
    IF ok THEN processed_candles[candle_id] # NoRow ELSE TRUE

\* SELECT COUNT(*) FROM processed_candles WHERE candle_id = ?; False on error
is_candle_processed(candle_id, ok) ==
    IF ok THEN processed_candles[candle_id] # NoRow ELSE FALSE

\* Mutant: only candles that fired an alert are written.
save_processed_candle_alerts_only(candle_data, alert_sent, ok) ==
    IF ok /\ alert_sent
    THEN [ processed_candles EXCEPT ![candle_data.candle_id] =
             [ timestamp  |-> candle_data.timestamp,
               index_name |-> candle_data.index_name,
               price      |-> candle_data.price,
               movement   |-> candle_data.movement,
               direction  |-> candle_data.direction,
               alert_sent |-> alert_sent ] ]
    ELSE processed_candles

\* INSERT OR REPLACE INTO processed_candles; the error is logged and dropped
save_processed_candle(candle_data, alert_sent, ok) ==
    IF ok
    THEN [ processed_candles EXCEPT ![candle_data.candle_id] =
             [ timestamp  |-> candle_data.timestamp,
               index_name |-> candle_data.index_name,
               price      |-> candle_data.price,
               movement   |-> candle_data.movement,
               direction  |-> candle_data.direction,
               alert_sent |-> alert_sent ] ]
    ELSE processed_candles

\* Mutant: the alert is never inserted.
save_alert_dropped(alert_data, ok) == alerts

\* INSERT INTO alerts; the error is logged and dropped
save_alert(alert_data, ok) ==
    IF ok THEN Append(alerts, alert_data) ELSE alerts

\* ------------------------------------------------------- alert history
\* Mutant: the cut keeps the first 50 entries (alerts_history[:50]).
history_push_keeps_oldest(h, entry) ==
    LET a == Append(h, entry)
    IN  IF Len(a) > HistoryCap THEN SubSeq(a, 1, HistoryCap) ELSE a

\* alerts_history.append(entry), then keep only the last 50
history_push(h, entry) ==
    LET a == Append(h, entry)
    IN  IF Len(a) > HistoryCap
        THEN SubSeq(a, Len(a) - HistoryCap + 1, Len(a))
        ELSE a

\* ------------------------------------------------------------- the feed
\* (previous close, current close) pairs ticker.history can end with.
Quotes == { << 10000, 10000 >>, << 10000, 11200 >> }

\* Index of the last candle: a wall-clock time in seconds and its zone
\* (None for a naive timestamp).  The feed stamps the forming candle of
\* bucket m in either form.
Stamps(m) ==
    { [ wall |-> SessionStart + 60 * m - IstOffset, tz |-> "None" ],
      [ wall |-> SessionStart + 60 * m,             tz |-> "Asia/Kolkata" ] }

\* Mutant: a naive index is taken as IST wall-clock time.
candle_time_ist_naive_local(stamp) ==
    IF stamp.tz = "UTC" THEN stamp.wall + IstOffset ELSE stamp.wall

\* tz_localize('UTC').tz_convert(IST) for a naive index, tz_convert(IST) else
candle_time_ist(stamp) ==
    IF stamp.tz = "None" THEN stamp.wall + IstOffset
    ELSE IF stamp.tz = "UTC" THEN stamp.wall + IstOffset
    ELSE stamp.wall

\* strftime("%Y%m%d_%H%M"): the minute, counted from the first bucket
candle_time(stamp) == (candle_time_ist(stamp) - SessionStart) \div 60

\* candle_id = f"{index_name}_{candle_time}"
candle_id_of(index_name, stamp) == << index_name, candle_time(stamp) >>

\* ------------------------------------------------------ is_market_open
\* 09:15:00 and 15:30:00 as seconds of the day
MarketOpenSec == 33300
MarketCloseSec == 55800

\* Mutant: the closing time is excluded (now < market_close).
is_market_open_before_close(now) ==
    IF ~now.resolved THEN FALSE
    ELSE IF now.weekday >= 5 THEN FALSE
    ELSE MarketOpenSec <= now.sec /\ now.sec < MarketCloseSec

\* is_market_open on a reading of datetime.now(IST): the weekday (Monday = 0),
\* the second of the day and the microsecond; resolved = FALSE stands for a
\* clock or timezone lookup that raises.
is_market_open(now) ==
    IF ~now.resolved THEN FALSE
    ELSE IF now.weekday >= 5 THEN FALSE
    ELSE /\ MarketOpenSec <= now.sec
         /\ \/ now.sec < MarketCloseSec
            \/ now.sec = MarketCloseSec /\ now.usec = 0

\* Readings of the clock the loop can get.
ClockSamples ==
    { [ resolved |-> TRUE, weekday |-> 2, sec |-> MarketOpenSec, usec |-> 0 ],
      [ resolved |-> TRUE, weekday |-> 2, sec |-> MarketCloseSec, usec |-> 1 ],
      [ resolved |-> TRUE, weekday |-> 5, sec |-> MarketOpenSec, usec |-> 0 ],
      [ resolved |-> FALSE, weekday |-> 0, sec |-> 0, usec |-> 0 ] }

\* ------------------------------------------------------------- threads
NoLocals ==
    [ i |-> 0, candle_id |-> << >>, last_close |-> 0, movement |-> 0,
      price |-> 0, ist |-> 0, telegram_sent |-> FALSE, market |-> "-",
      idle |-> 0 ]

FreeSlots == { l \in Loops : pc[l] = "none" }

\* threading.Thread(target=background_monitoring).start(): the thread takes
\* the first free slot.
Launch ==
    LET l == CHOOSE s \in FreeSlots : \A t \in FreeSlots : s <= t
    IN  /\ pc' = [ pc EXCEPT ![l] = "top" ]
        /\ loc' = [ loc EXCEPT ![l] = NoLocals ]
        /\ stale' = stale \ { l }

InitProgram ==
    /\ is_monitoring = FALSE
    /\ current_price = 0
    /\ last_update = Never
    /\ alerts_history = << >>
    /\ processed_candles = [ c \in CandleIds |-> NoRow ]
    /\ alerts = << >>
    /\ pc = [ l \in Loops |-> "none" ]
    /\ loc = [ l \in Loops |-> NoLocals ]
    /\ resp = NoResponse
    /\ apc = "wait"
    /\ minute = 0
    /\ cycles = 0
    /\ notified = [ c \in CandleIds |-> 0 ]
    /\ recorded = { }
    /\ stale = { }

\* The variables of the specifications of single functions, at rest.
NoGate == g_in = NoRow /\ g_out = NoRow

NoKey == k_in = NoRow /\ k_out = NoRow

NoAux ==
    /\ pushed = 0
    /\ d_in = << >>
    /\ d_out = NoRow
    /\ NoGate
    /\ NoKey

\* The state after the module is loaded; the ledger may fail MaxFaults times.
Init == InitProgram /\ NoAux /\ faults = MaxFaults

\* The same with a ledger that never fails.
InitReliable == InitProgram /\ NoAux /\ faults = 0

Globals == << current_price, last_update, alerts_history >>
Ledger == << processed_candles, alerts, faults >>
Feed == << minute, cycles >>
Observed == << notified, recorded >>
Facade == << apc >>
Aux == << pushed, d_in, d_out, g_in, g_out, k_in, k_out >>

\* ------------------------------------------------- start / stop / auto
\* Mutant: start_monitoring without the test of is_monitoring.
start_monitoring_unguarded ==
    /\ FreeSlots # { }
    /\ is_monitoring' = TRUE
    /\ Launch
    /\ resp' = [ op |-> "start", status |-> "success" ]
    /\ UNCHANGED << apc, Feed, Observed, Globals, Ledger, Aux >>

\* start_monitoring: an error when is_monitoring is set, else set it, start
\* the thread and answer success
start_monitoring ==
    /\ IF is_monitoring
       THEN /\ resp' = [ op |-> "start", status |-> "error" ]
            /\ UNCHANGED << is_monitoring, pc, loc, stale >>
       ELSE /\ FreeSlots # { }
            /\ is_monitoring' = TRUE
            /\ Launch
            /\ resp' = [ op |-> "start", status |-> "success" ]
    /\ UNCHANGED << apc, Feed, Observed, Globals, Ledger, Aux >>

\* stop_monitoring: an error when is_monitoring is clear, else clear it and
\* answer success
stop_monitoring ==
    /\ IF ~is_monitoring
       THEN /\ resp' = [ op |-> "stop", status |-> "error" ]
            /\ UNCHANGED << is_monitoring, stale >>
       ELSE /\ is_monitoring' = FALSE
            /\ resp' = [ op |-> "stop", status |-> "success" ]
            /\ stale' = { l \in Loops : pc[l] \notin { "none", "top" } }
    /\ UNCHANGED << pc, loc, apc, Feed, Observed, Globals, Ledger, Aux >>

\* auto_start_monitoring: after the sleep, the test of is_monitoring
AutoCheck ==
    /\ apc = "wait"
    /\ apc' = IF is_monitoring THEN "done" ELSE "launch"
    /\ resp' = NoResponse
    /\ UNCHANGED << is_monitoring, pc, loc, Feed, Observed, stale,
                    Globals, Ledger, Aux >>

\* auto_start_monitoring: set the flag, start the thread and send the startup
\* message (its result is not used)
AutoLaunch ==
    /\ apc = "launch"
    /\ FreeSlots # { }
    /\ is_monitoring' = TRUE
    /\ Launch
    /\ \E r \in DeliveryResults : apc' = "done"
    /\ resp' = NoResponse
    /\ UNCHANGED << Feed, Observed, Globals, Ledger, Aux >>

\* ------------------------------------------------ background_monitoring
\* Mutant: the return of a process_index_data call ends the cycle.
Return_ends_cycle(l) ==
    /\ pc' = [ pc EXCEPT ![l] = "sleep" ]
    /\ loc' = [ loc EXCEPT ![l] =
                  [ NoLocals EXCEPT !.market = loc[l].market,
                                    !.idle = IdlePeriod ] ]

\* The return of process_index_data, normal or from its except branch: on to
\* the next instrument, or to the time.sleep(10) that ends the cycle.  No
\* exception leaves process_index_data or is_market_open, so the except
\* branch of background_monitoring with its time.sleep(30) is never entered.
Return(l) ==
    IF loc[l].i < Len(Instruments)
    THEN /\ pc' = [ pc EXCEPT ![l] = "fetch" ]
         /\ loc' = [ loc EXCEPT ![l] =
                       [ NoLocals EXCEPT !.i = loc[l].i + 1,
                                         !.market = loc[l].market ] ]
    ELSE /\ pc' = [ pc EXCEPT ![l] = "sleep" ]
         /\ loc' = [ loc EXCEPT ![l] =
                       [ NoLocals EXCEPT !.market = loc[l].market,
                                         !.idle = IdlePeriod ] ]

\* Mutant: the instruments are processed whatever is_market_open() returned.
AfterGate_ignored(open) == "fetch"

\* if is_market_open(): the two process_index_data calls; else: the log line;
\* then time.sleep(10)
AfterGate(open) == IF open THEN "fetch" ELSE "sleep"

\* while is_monitoring, and the test of is_market_open()
LoopTop(l) ==
    /\ pc[l] = "top"
    /\ IF ~is_monitoring
       THEN /\ pc' = [ pc EXCEPT ![l] = "none" ]
            /\ loc' = [ loc EXCEPT ![l] = NoLocals ]
            /\ stale' = stale \ { l }
            /\ cycles' = cycles
       ELSE /\ cycles < MaxCycles
            /\ cycles' = cycles + 1
            /\ \E now \in ClockSamples :
                 LET open == is_market_open(now)
                 IN  /\ pc' = [ pc EXCEPT ![l] = AfterGate(open) ]
                     /\ loc' = [ loc EXCEPT ![l] =
                          [ NoLocals EXCEPT
                              !.i = IF AfterGate(open) = "fetch" THEN 1 ELSE 0,
                              !.market = IF open THEN "open" ELSE "closed",
                              !.idle = IF AfterGate(open) = "sleep"
                                       THEN IdlePeriod ELSE 0 ] ]
            /\ stale' = stale \ { l }
    /\ resp' = NoResponse
    /\ UNCHANGED << is_monitoring, minute, Observed, Globals, Ledger, Facade, Aux >>

\* time.sleep(10), then back to the test of is_monitoring
Sleep(l) ==
    /\ pc[l] = "sleep"
    /\ pc' = [ pc EXCEPT ![l] = "top" ]
    /\ loc' = [ loc EXCEPT ![l] = NoLocals ]
    /\ resp' = NoResponse
    /\ UNCHANGED << is_monitoring, Feed, Observed, stale, Globals, Ledger,
                    Facade, Aux >>

\* Mutant: a fetch without a usable payload resets the last price.
FetchNothing_clears_price(l) ==
    /\ pc[l] = "fetch"
    /\ \E why \in { "raise", "empty", "short" } : Return(l)
    /\ current_price' = 0
    /\ resp' = NoResponse
    /\ UNCHANGED << is_monitoring, Feed, Observed, stale, last_update,
                    alerts_history, Ledger, Facade, Aux >>

\* process_index_data: ticker.history raises, or returns fewer than 2 rows
FetchNothing(l) ==
    /\ pc[l] = "fetch"
    /\ \E why \in { "raise", "empty", "short" } : Return(l)
    /\ resp' = NoResponse
    /\ UNCHANGED << is_monitoring, Feed, Observed, stale, Globals, Ledger,
                    Facade, Aux >>

\* process_index_data: from the fetch to the candle_id, the payload ending
\* with a pair of closes of the set quotes.  The feed's clock moves between
\* fetches: the fetch finds it at the bucket it was in at the last fetch, or
\* at a later one.
FetchFrom(l, quotes) ==
    /\ pc[l] = "fetch"
    /\ \E m \in minute..MaxMinute, q \in quotes :
       \E stamp \in Stamps(m) :
         /\ minute' = m
         /\ current_price' = q[2]
         /\ last_update' = m
         /\ loc' = [ loc EXCEPT ![l] =
                       [ @ EXCEPT !.last_close = q[1],
                                  !.movement = q[2] - q[1],
                                  !.price = q[2],
                                  !.ist = candle_time_ist(stamp),
                                  !.candle_id =
                                      candle_id_of(Instruments[loc[l].i].index_name,
                                                   stamp) ] ]
    /\ pc' = [ pc EXCEPT ![l] = "dedup" ]
    /\ resp' = NoResponse
    /\ UNCHANGED << is_monitoring, alerts_history, cycles, Observed, stale,
                    Ledger, Facade, Aux >>

Fetch(l) == FetchFrom(l, Quotes)

\* Mutant: the threshold is exclusive.
meets_threshold_strict(movement, threshold) == Abs(movement) > threshold

\* abs_movement >= threshold
meets_threshold(movement, threshold) == Abs(movement) >= threshold

direction_of(movement) == IF movement > 0 THEN "UP" ELSE "DOWN"

\* process_index_data: if is_candle_processed(candle_id): return, else the
\* threshold test
Dedup(l) ==
    /\ pc[l] = "dedup"
    /\ \E ok \in LedgerOutcomes :
         /\ faults' = UseFault(ok)
         /\ IF is_candle_processed(loc[l].candle_id, ok)
            THEN Return(l)
            ELSE /\ loc' = loc
                 /\ pc' = [ pc EXCEPT ![l] =
                       IF meets_threshold(loc[l].movement,
                                          Instruments[loc[l].i].threshold)
                       THEN "send" ELSE "save_processed" ]
    /\ resp' = NoResponse
    /\ UNCHANGED << is_monitoring, Feed, Observed, stale, Globals,
                    processed_candles, alerts, Facade, Aux >>

\* Mutant: requests.post without a timeout, never answered.
Send_unanswered(l) ==
    /\ pc[l] = "send"
    /\ UNCHANGED vars

\* telegram_sent = send_telegram_message(message)
Send(l) ==
    /\ pc[l] = "send"
    /\ \E r \in DeliveryResults :
         loc' = [ loc EXCEPT ![l].telegram_sent = r ]
    /\ notified' = [ notified EXCEPT ![loc[l].candle_id] = @ + 1 ]
    /\ recorded' = recorded
    /\ pc' = [ pc EXCEPT ![l] = "save_alert" ]
    /\ resp' = NoResponse
    /\ UNCHANGED << is_monitoring, Feed, stale, Globals, Ledger, Facade, Aux >>

alert_data(l) ==
    [ candle_id     |-> loc[l].candle_id,
      direction     |-> direction_of(loc[l].movement),
      movement      |-> Abs(loc[l].movement),
      price         |-> loc[l].price,
      index_name    |-> Instruments[loc[l].i].index_name,
      timestamp     |-> loc[l].ist,
      telegram_sent |-> loc[l].telegram_sent ]

\* save_alert(alert_data)
SaveAlert(l) ==
    /\ pc[l] = "save_alert"
    /\ \E ok \in LedgerOutcomes :
         /\ faults' = UseFault(ok)
         /\ alerts' = save_alert(alert_data(l), ok)
    /\ pc' = [ pc EXCEPT ![l] = "history" ]
    /\ resp' = NoResponse
    /\ UNCHANGED << is_monitoring, loc, Feed, Observed, stale, Globals,
                    processed_candles, Facade, Aux >>

history_entry(l) ==
    [ time      |-> loc[l].ist \div 60,
      index     |-> Instruments[loc[l].i].index_name,
      direction |-> direction_of(loc[l].movement),
      movement  |-> Abs(loc[l].movement),
      price     |-> loc[l].price,
      sent      |-> loc[l].telegram_sent ]

\* alerts_history.append(...) and the cut to the last 50
PushHistory(l) ==
    /\ pc[l] = "history"
    /\ alerts_history' = history_push(alerts_history, history_entry(l))
    /\ pc' = [ pc EXCEPT ![l] = "save_processed" ]
    /\ resp' = NoResponse
    /\ UNCHANGED << is_monitoring, current_price, last_update, loc, Feed,
                    Observed, stale, Ledger, Facade, Aux >>

candle_data(l) ==
    [ candle_id  |-> loc[l].candle_id,
      timestamp  |-> loc[l].ist,
      index_name |-> Instruments[loc[l].i].index_name,
      price      |-> loc[l].price,
      movement   |-> loc[l].movement,
      direction  |-> direction_of(loc[l].movement) ]

\* save_processed_candle(candle_data, abs_movement >= threshold), and return
SaveProcessed(l) ==
    /\ pc[l] = "save_processed"
    /\ \E ok \in LedgerOutcomes :
         /\ faults' = UseFault(ok)
         /\ processed_candles' =
              save_processed_candle(candle_data(l),
                  meets_threshold(loc[l].movement, Instruments[loc[l].i].threshold),
                  ok)
    /\ recorded' = recorded \cup { loc[l].candle_id }
    /\ Return(l)
    /\ resp' = NoResponse
    /\ UNCHANGED << is_monitoring, Feed, notified, stale, Globals, alerts,
                    Facade, Aux >>

Next ==
    \/ start_monitoring \/ stop_monitoring
    \/ AutoCheck \/ AutoLaunch
    \/ \E l \in Loops :
         \/ LoopTop(l) \/ Sleep(l) \/ FetchNothing(l) \/ Fetch(l) \/ Dedup(l)
         \/ Send(l) \/ SaveAlert(l) \/ PushHistory(l) \/ SaveProcessed(l)

Spec == Init /\ [][Next]_vars

SpecReliable == InitReliable /\ [][Next]_vars

\* ------------------------------------------------- the program left alone
\* One step of a background_monitoring thread.
LoopStep(l) ==
    \/ LoopTop(l) \/ Sleep(l) \/ FetchNothing(l) \/ Fetch(l) \/ Dedup(l)
    \/ Send(l) \/ SaveAlert(l) \/ PushHistory(l) \/ SaveProcessed(l)

\* No request arrives: auto_start_monitoring starts the only loop.
NextAlone ==
    \/ AutoCheck \/ AutoLaunch
    \/ \E l \in Loops : LoopStep(l)

SpecAlone == Init /\ [][NextAlone]_vars

\* The same with a ledger that never fails, every thread taking its next
\* step: each call a thread waits for returns (requests.post has timeout=10).
SpecLive ==
    /\ InitReliable
    /\ [][NextAlone]_vars
    /\ WF_vars(AutoCheck)
    /\ WF_vars(AutoLaunch)
    /\ \A l \in Loops : WF_vars(LoopStep(l))

\* ---------------------------------------- send_telegram_message on its own
\* Every sequence of per-attempt outcomes, and the call on it.
InitDeliver ==
    /\ InitProgram
    /\ faults = 0
    /\ pushed = 0
    /\ d_in \in OutcomeSeqs
    /\ d_out = NoRow
    /\ NoGate
    /\ NoKey

Deliver ==
    /\ d_out = NoRow
    /\ d_out' = send_telegram_message(d_in)
    /\ UNCHANGED << is_monitoring, pc, loc, resp, stale, Feed, Observed, Globals,
                    Ledger, Facade, pushed, d_in, g_in, g_out, k_in, k_out >>

NextDeliver == Deliver

SpecDeliver == InitDeliver /\ [][NextDeliver]_vars

\* ------------------------------------------------ the alert history on its own
\* The n-th entry pushed: the alert of an instrument at price 10000 + n.
EntryNo(n) ==
    [ time      |-> 0,
      index     |-> Instruments[1 + (n % 2)].index_name,
      direction |-> "UP",
      movement  |-> Instruments[1 + (n % 2)].threshold,
      price     |-> 10000 + n,
      sent      |-> (n % 3 = 0) ]

PushNext ==
    /\ pushed < MaxPushes
    /\ pushed' = pushed + 1
    /\ alerts_history' = history_push(alerts_history, EntryNo(pushed + 1))
    /\ UNCHANGED << is_monitoring, current_price, last_update, pc, loc, resp,
                    stale, Feed, Observed, Ledger, Facade, d_in, d_out,
                    g_in, g_out, k_in, k_out >>

\* get_alerts / get_status between two pushes: the number of entries served.
get_alerts ==
    /\ pushed > 0
    /\ resp' = [ op |-> "alerts", status |-> Len(alerts_history) ]
    /\ UNCHANGED << is_monitoring, pc, loc, stale, Feed, Observed, Globals,
                    Ledger, Facade, Aux >>

NextHistory == PushNext \/ get_alerts

SpecHistory == Init /\ [][NextHistory]_vars

\* ------------------------------------------- one cycle over many closes
\* Pairs of closes whose difference lies on, just inside and just outside
\* each threshold, in both directions, and around zero.
DecisionQuotes ==
    { << 10000, 10000 + d >> :
        d \in { 0 - SENSEX_THRESHOLD - 1, 0 - SENSEX_THRESHOLD, 1 - SENSEX_THRESHOLD,
                0 - NIFTY_THRESHOLD - 1, 0 - NIFTY_THRESHOLD, 1 - NIFTY_THRESHOLD,
                -1, 0, 1,
                NIFTY_THRESHOLD - 1, NIFTY_THRESHOLD, NIFTY_THRESHOLD + 1,
                SENSEX_THRESHOLD - 1, SENSEX_THRESHOLD, SENSEX_THRESHOLD + 1 } }

\* The state after auto_start_monitoring started the loop and the loop found
\* the market open: the first thread is about to fetch the first instrument.
\* The ledger never fails.
InitDecide ==
    /\ is_monitoring = TRUE
    /\ current_price = 0
    /\ last_update = Never
    /\ alerts_history = << >>
    /\ processed_candles = [ c \in CandleIds |-> NoRow ]
    /\ alerts = << >>
    /\ pc = [ l \in Loops |-> IF l = 1 THEN "fetch" ELSE "none" ]
    /\ loc = [ l \in Loops |->
                IF l = 1 THEN [ NoLocals EXCEPT !.i = 1, !.market = "open" ]
                ELSE NoLocals ]
    /\ resp = NoResponse
    /\ apc = "done"
    /\ minute = 0
    /\ cycles = 1
    /\ notified = [ c \in CandleIds |-> 0 ]
    /\ recorded = { }
    /\ stale = { }
    /\ faults = 0
    /\ NoAux

NextDecide ==
    \E l \in Loops :
        \/ FetchFrom(l, DecisionQuotes) \/ Dedup(l) \/ Send(l) \/ SaveAlert(l)
        \/ PushHistory(l) \/ SaveProcessed(l)

SpecDecide == InitDecide /\ [][NextDecide]_vars

\* ------------------------------------------------ is_market_open on its own
\* Readings of the clock: every weekday, the seconds around the opening and
\* the closing time, midnight, noon and the last second of the day, with the
\* first, second and last microsecond; and a clock that cannot be read.
ClockReadings ==
    [ resolved : { TRUE },
      weekday  : 0..6,
      sec      : { 0, MarketOpenSec - 1, MarketOpenSec, MarketOpenSec + 1, 43200,
                   MarketCloseSec - 1, MarketCloseSec, MarketCloseSec + 1, 86399 },
      usec     : { 0, 1, 999999 } ]
    \cup
    [ resolved : { FALSE }, weekday : { 0, 6 }, sec : { 0, 43200 }, usec : { 0 } ]

InitGate ==
    /\ InitProgram
    /\ faults = 0
    /\ pushed = 0
    /\ d_in = << >>
    /\ d_out = NoRow
    /\ g_in \in ClockReadings
    /\ g_out = NoRow
    /\ NoKey

\* One call of is_market_open()
Gate ==
    /\ g_out = NoRow
    /\ g_out' = [ open |-> is_market_open(g_in) ]
    /\ UNCHANGED << is_monitoring, pc, loc, resp, stale, Feed, Observed, Globals,
                    Ledger, Facade, pushed, d_in, d_out, g_in, k_in, k_out >>

NextGate == Gate

SpecGate == InitGate /\ [][NextGate]_vars

\* ---------------------------------------------------- candle_id on its own
\* Index values of the last candle of a poll: the minutes before, at and
\* after the first bucket; the first, second and last second of the minute
\* and three fractions of it; naive, UTC and exchange-zone timestamps.
KeyStamps ==
    UNION { { [ wall |-> SessionStart + 60 * m + sec - IstOffset, usec |-> u, tz |-> "None" ],
              [ wall |-> SessionStart + 60 * m + sec - IstOffset, usec |-> u, tz |-> "UTC" ],
              [ wall |-> SessionStart + 60 * m + sec, usec |-> u, tz |-> "Asia/Kolkata" ] } :
            m \in -1..1, sec \in { 0, 1, 59 }, u \in { 0, 999999 } }

InitKey ==
    /\ InitProgram
    /\ faults = 0
    /\ pushed = 0
    /\ d_in = << >>
    /\ d_out = NoRow
    /\ NoGate
    /\ k_in \in [ index_name : IndexNames, a : KeyStamps, b : KeyStamps ]
    /\ k_out = NoRow

\* The candle_id of each of the two polls.
DeriveKey ==
    /\ k_out = NoRow
    /\ k_out' = [ a |-> candle_id_of(k_in.index_name, k_in.a),
                  b |-> candle_id_of(k_in.index_name, k_in.b) ]
    /\ UNCHANGED << is_monitoring, pc, loc, resp, stale, Feed, Observed, Globals,
                    Ledger, Facade, pushed, d_in, d_out, g_in, g_out, k_in >>

NextKey == DeriveKey

SpecKey == InitKey /\ [][NextKey]_vars

\* ===================================================================
\* Properties
\* ===================================================================
\* Threads past the test of is_monitoring: inside a cycle or in its sleep.
Working == { l \in Loops : pc[l] \notin { "none", "top" } }

\* Positions between the dedup check and the return of process_index_data.
Evaluating == { "send", "save_alert", "history", "save_processed" }

\* Number of rows of the alerts table for a candle_id.
AlertCount(c) == Cardinality({ i \in 1..Len(alerts) : alerts[i].candle_id = c })

\* A step that fetches nothing, evaluates nothing, notifies nobody and writes
\* neither the ledger nor the monitor state.
QuietStep ==
    UNCHANGED << current_price, last_update, alerts_history, processed_candles,
                 alerts, notified, recorded, minute >>

\* C1 (as claimed): for every candle_id the ledger holds at most one
\* AlertRecord, whatever the polling cycles did.
C1_OneAlertPerCandle == \A c \in CandleIds : AlertCount(c) <= 1

\* C2 (as claimed): at most one background loop is past its test of the
\* running flag at any time, so no two monitoring cycles overlap.
C2_SingleLoop == Cardinality(Working) <= 1

\* C3 (as claimed): a loop that was inside a cycle when stop cleared the flag
\* leaves at its next test of the flag; it begins no further cycle.
C3_StoppedLoopExits ==
    [][ \A l \in Loops :
          (l \in stale /\ pc[l] = "top") => pc'[l] \in { "top", "none" } ]_vars

C5_ClosedCycleIdle ==
    [][ \A l \in Loops :
          /\ (pc[l] = "top" /\ loc'[l].market = "closed") =>
                 pc'[l] = "sleep" /\ QuietStep
          /\ (loc[l].market = "closed" /\ << pc'[l], loc'[l] >> # << pc[l], loc[l] >>) =>
                 pc[l] = "sleep" /\ pc'[l] = "top" /\ QuietStep ]_vars

\* C5 witness: a loop sleeps after a closed-market test while the ledger
\* already holds a processed candle of an earlier cycle.
C5_Witness ==
    /\ \E l \in Loops : pc[l] = "sleep" /\ loc[l].market = "closed"
    /\ \E c \in CandleIds : processed_candles[c] # NoRow

\* The attempts of d_in that end the call with True.
Sent200 == { k \in 1..MaxAttempts : d_in[k] = "200" }
Sent2xx == { k \in 1..MaxAttempts : d_in[k] \in { "200", "2xx" } }

First(S) == CHOOSE k \in S : \A j \in S : k <= j

\* C6 (amended): the call makes at most 5 requests, never raises, returns True
\* at the first request answered with status 200 and makes no further
\* request, and returns False after 5 requests when none was answered 200.
C6_DeliveryBounded ==
    d_out # NoRow =>
        /\ ~d_out.raised
        /\ d_out.attempts <= MaxAttempts
        /\ d_out.ok <=> Sent200 # { }
        /\ d_out.ok => d_out.attempts = First(Sent200)
        /\ ~d_out.ok => d_out.attempts = MaxAttempts

\* C6 (as claimed): the same with every 2xx answer counting as success.
C6_AsClaimed ==
    d_out # NoRow =>
        /\ ~d_out.raised
        /\ d_out.attempts <= MaxAttempts
        /\ d_out.ok <=> Sent2xx # { }
        /\ d_out.ok => d_out.attempts = First(Sent2xx)
        /\ ~d_out.ok => d_out.attempts = MaxAttempts

\* C6 witness: a failed status, an exception, another failed status, an
\* exception, then status 200 on the fifth request.
C6_Witness ==
    /\ d_in = << "non2xx", "error", "non2xx", "error", "200" >>
    /\ d_out # NoRow
    /\ d_out.ok
    /\ d_out.attempts = MaxAttempts

\* C7 (as claimed): between the k-th failed request and the next one the call
\* sleeps 2^(k-1), whether the request failed by its status or by an exception
\* (stated for answers that are 200, outside 2xx, or an exception).
C7_Backoff ==
    (d_out # NoRow /\ \A k \in 1..MaxAttempts : d_in[k] # "2xx") =>
        \A k \in 1..(d_out.attempts - 1) : d_out.sleeps[k] = Pow2(k - 1)

\* C8 (as claimed): every evaluation ends with the call of
\* save_processed_candle for its candle_id, and once that call was made no
\* dedup check lets the candle_id be evaluated again.
C8_AsClaimed ==
    [][ \A l \in Loops :
          /\ (pc[l] \in Evaluating /\ pc'[l] \notin Evaluating) =>
                 pc[l] = "save_processed" /\ loc[l].candle_id \in recorded'
          /\ (pc[l] = "dedup" /\ loc[l].candle_id \in recorded) =>
                 pc'[l] \notin Evaluating ]_vars

\* C8 (amended): every evaluation ends with the call of save_processed_candle
\* for its candle_id, alert or not; when that write succeeds the row is
\* stored, rows are never removed, and a dedup check that reads a stored row
\* without a storage failure returns without evaluating.
C8_EvaluationRecorded ==
    [][ /\ \A l \in Loops :
             /\ (pc[l] \in Evaluating /\ pc'[l] \notin Evaluating) =>
                    pc[l] = "save_processed" /\ loc[l].candle_id \in recorded'
             /\ (pc[l] = "save_processed" /\ pc'[l] # pc[l] /\ faults' = faults) =>
                    processed_candles'[loc[l].candle_id] # NoRow
             /\ (pc[l] = "dedup" /\ pc'[l] # pc[l] /\ faults' = faults
                   /\ processed_candles[loc[l].candle_id] # NoRow) =>
                    pc'[l] \notin Evaluating
        /\ \A c \in CandleIds :
             processed_candles[c] # NoRow => processed_candles'[c] # NoRow ]_vars

\* C8 witness: a candle that fired no alert was recorded, and a later poll of
\* the same bucket stands at its dedup check.
C8_Witness ==
    \E l \in Loops, c \in CandleIds :
        /\ pc[l] = "dedup"
        /\ loc[l].candle_id = c
        /\ c \in recorded
        /\ processed_candles[c] # NoRow
        /\ processed_candles[c].alert_sent = FALSE

\* C9 (as claimed): a candle recorded with alert_sent = true had the sink
\* called exactly once and has exactly one AlertRecord.
C9_AlertOutcome ==
    \A c \in CandleIds :
        (processed_candles[c] # NoRow /\ processed_candles[c].alert_sent) =>
            notified[c] = 1 /\ AlertCount(c) = 1

ThresholdOf(c) ==
    LET i == CHOOSE j \in 1..Len(Instruments) : Instruments[j].index_name = c[1]
    IN  Instruments[i].threshold

NotAfter(a, b) == a[1] < b[1] \/ (a[1] = b[1] /\ a[2] <= b[2])

TimeOfDay(now) == << now.sec, now.usec >>

\* C12: is_market_open returns a boolean for every reading; it returns True
\* iff the clock could be read, the day is Monday..Friday and the time of day
\* lies between 09:15:00 and 15:30:00, both included.
C12_MarketHoursGate ==
    g_out # NoRow =>
        /\ g_out.open \in BOOLEAN
        /\ g_out.open <=>
              /\ g_in.resolved
              /\ g_in.weekday \in 0..4
              /\ NotAfter(<< 33300, 0 >>, TimeOfDay(g_in))
              /\ NotAfter(TimeOfDay(g_in), << 55800, 0 >>)

\* C12 witness: Friday 15:30:00.000000 is open.
C12_Witness ==
    /\ g_in = [ resolved |-> TRUE, weekday |-> 4, sec |-> 55800, usec |-> 0 ]
    /\ g_out = [ open |-> TRUE ]

\* Positions inside one process_index_data call.
Processing == { "fetch", "dedup" } \cup Evaluating

\* A step of thread l that leaves its fetch without a usable payload: the
\* fetch raised, or returned nothing or fewer than 2 candles.
FetchFailed(l) ==
    /\ pc[l] = "fetch"
    /\ << pc'[l], loc'[l] >> # << pc[l], loc[l] >>
    /\ pc'[l] # "dedup"

\* C13: a fetch that raises or returns an empty or short payload ends this
\* instrument's processing at once: no notification, no ledger read or write,
\* last price, last update and alert history unchanged.
C13_TransientErrorsSkip ==
    [][ \A l \in Loops :
          FetchFailed(l) =>
              /\ QuietStep
              /\ faults' = faults
              /\ is_monitoring' = is_monitoring
              /\ pc'[l] \in { "fetch", "sleep" }
              /\ pc'[l] = "fetch" => loc'[l].i = loc[l].i + 1 ]_vars

\* C13 witness: a market-open cycle in which both fetches failed has reached
\* its sleep, and the monitor state is as it was at start.
C13_Witness ==
    \E l \in Loops :
        /\ pc[l] = "sleep"
        /\ loc[l].market = "open"
        /\ last_update = Never
        /\ current_price = 0
        /\ recorded = { }
        /\ alerts = << >>
        /\ alerts_history = << >>

\* C14: a market-open cycle starts with NIFTY 50; however the processing of
\* NIFTY 50 ends (failed fetch, dedup hit, evaluation with or without ledger
\* failures), the thread goes on to the fetch of BSE SENSEX in the same cycle;
\* the cycle's sleep comes only after BSE SENSEX.
C14_InstrumentsIndependent ==
    [][ \A l \in Loops :
          /\ (pc[l] = "top" /\ loc'[l].market = "open") =>
                 /\ pc'[l] = "fetch"
                 /\ Instruments[loc'[l].i].index_name = "NIFTY 50"
          /\ (pc[l] \in Processing /\ pc'[l] \in Processing) =>
                 \/ loc'[l].i = loc[l].i
                 \/ /\ Instruments[loc[l].i].index_name = "NIFTY 50"
                    /\ Instruments[loc'[l].i].index_name = "BSE SENSEX"
                    /\ pc'[l] = "fetch"
          /\ (pc[l] \in Processing /\ pc'[l] \notin Processing) =>
                 /\ Instruments[loc[l].i].index_name = "BSE SENSEX"
                 /\ pc'[l] = "sleep" ]_vars

\* C14 witness: the fetch of NIFTY 50 failed and BSE SENSEX is being
\* evaluated in the same cycle (nothing was recorded before, so the first
\* call of the cycle cannot have ended at the dedup check).
C14_Witness ==
    \E l \in Loops :
        /\ pc[l] = "save_processed"
        /\ Instruments[loc[l].i].index_name = "BSE SENSEX"
        /\ cycles = 1
        /\ recorded = { }

\* C15 (as claimed): a cycle whose last fetch failed idles 30 before the next
\* cycle, and the flag stays as it was.
C15_FailureBacksOff ==
    [][ \A l \in Loops :
          (FetchFailed(l) /\ pc'[l] = "sleep") =>
              /\ loc'[l].idle = 3 * IdlePeriod
              /\ is_monitoring' = is_monitoring ]_vars

\* A step of thread l in which its ledger call failed.
LedgerFailed(l) == pc'[l] # pc[l] /\ faults' < faults

\* C16: a failing is_candle_processed reads as not processed, so the candle is
\* evaluated even when its row is stored; a failing save_alert or
\* save_processed_candle writes nothing and the thread goes on with the next
\* step of the cycle; no ledger failure touches the flag or ends the thread;
\* and a dedup check that finds no row (as after a failed
\* save_processed_candle) evaluates the candle again.
C16_LedgerFailOpen ==
    [][ \A l \in Loops :
          /\ (pc[l] = "dedup" /\ LedgerFailed(l)) =>
                 pc'[l] \in { "send", "save_processed" }
          /\ (pc[l] = "save_alert" /\ LedgerFailed(l)) =>
                 alerts' = alerts /\ pc'[l] = "history"
          /\ (pc[l] = "save_processed" /\ LedgerFailed(l)) =>
                 /\ processed_candles' = processed_candles
                 /\ pc'[l] \in { "fetch", "sleep" }
          /\ LedgerFailed(l) =>
                 is_monitoring' = is_monitoring /\ pc'[l] # "none"
          /\ (pc[l] = "dedup" /\ pc'[l] # pc[l]
                /\ processed_candles[loc[l].candle_id] = NoRow) =>
                 pc'[l] \in { "send", "save_processed" } ]_vars

\* C16 witness: the only loop evaluated a candle, its save_processed_candle
\* failed, and the next cycle sent a second notification for the same
\* candle_id.
C16_Witness ==
    \E c \in CandleIds :
        /\ c \in recorded
        /\ processed_candles[c] = NoRow
        /\ faults = 0
        /\ notified[c] = 2
        /\ is_monitoring

\* The instant of a stamp in seconds since the epoch of the model, a naive
\* stamp read as UTC.
InstantOf(stamp) ==
    IF stamp.tz = "Asia/Kolkata" THEN stamp.wall - 19800 ELSE stamp.wall

\* C17: two polls of one instrument derive the same candle_id iff their last
\* candles fall in the same minute, whatever the seconds, the fraction and
\* the zone of the two stamps; the candle_id carries the index name.
C17_KeyStable ==
    k_out # NoRow =>
        /\ (InstantOf(k_in.a) \div 60 = InstantOf(k_in.b) \div 60) <=> (k_out.a = k_out.b)
        /\ k_out.a[1] = k_in.index_name
        /\ k_out.b[1] = k_in.index_name

\* C17 witness: a naive stamp at second 0 and a zone-aware stamp at second
\* 59.999999 of the same minute gave one candle_id.
C17_Witness ==
    /\ k_out # NoRow
    /\ k_in.a.tz = "None" /\ k_in.b.tz = "Asia/Kolkata"
    /\ InstantOf(k_in.b) = InstantOf(k_in.a) + 59
    /\ k_in.b.usec = 999999
    /\ k_out.a = k_out.b

\* C18 (as claimed): with a working ledger a bucket is evaluated once: no
\* thread evaluates a candle_id that another thread is evaluating or that an
\* evaluation has already finished with, and no candle_id gets a second
\* notification.
C18_EvaluatedOnce ==
    /\ \A l \in Loops :
         pc[l] \in Evaluating =>
             /\ loc[l].candle_id \notin recorded
             /\ \A k \in Loops \ { l } :
                    pc[k] \in Evaluating => loc[k].candle_id # loc[l].candle_id
    /\ \A c \in CandleIds : notified[c] <= 1

\* The alert history holds an entry of the candle.
HasHistory(c) ==
    \E i \in 1..Len(alerts_history) :
        /\ alerts_history[i].index = c[1]
        /\ alerts_history[i].time = (SessionStart + 60 * c[2]) \div 60

\* C19 (as claimed): a processed candle with alert_sent = true has an
\* AlertRecord and a history entry, and an AlertRecord exists only for a
\* candle_id whose notification delivery has completed.
C19_AsClaimed ==
    \A c \in CandleIds :
        /\ (processed_candles[c] # NoRow /\ processed_candles[c].alert_sent) =>
               AlertCount(c) >= 1 /\ HasHistory(c)
        /\ AlertCount(c) >= 1 => notified[c] >= 1

\* C19 (amended): the steps of an evaluation that alerts follow each other in
\* the order send, save_alert, history push, save_processed_candle; a
\* save_alert that does not fail appends the AlertRecord with the delivery
\* result; a processed candle with alert_sent = true has a completed delivery
\* and a history entry, and has an AlertRecord unless a ledger call failed;
\* an AlertRecord exists only after the delivery has completed.
C19_StepOrder ==
    /\ [](\A c \in CandleIds :
            /\ (processed_candles[c] # NoRow /\ processed_candles[c].alert_sent) =>
                   /\ notified[c] >= 1
                   /\ HasHistory(c)
                   /\ AlertCount(c) >= 1 \/ faults < MaxFaults
            /\ AlertCount(c) >= 1 => notified[c] >= 1)
    /\ [][ \A l \in Loops :
            /\ pc'[l] = "save_alert" => pc[l] \in { "send", "save_alert" }
            /\ pc'[l] = "history" => pc[l] \in { "save_alert", "history" }
            /\ (pc[l] \in { "send", "save_alert", "history" } /\ pc'[l] # pc[l]) =>
                   pc'[l] = ( CASE pc[l] = "send" -> "save_alert"
                                [] pc[l] = "save_alert" -> "history"
                                [] pc[l] = "history" -> "save_processed" )
            /\ (pc[l] = "send" /\ pc'[l] # pc[l]) =>
                   notified'[loc[l].candle_id] = notified[loc[l].candle_id] + 1
            /\ (pc[l] = "save_alert" /\ pc'[l] # pc[l] /\ faults' = faults) =>
                   /\ Len(alerts') = Len(alerts) + 1
                   /\ alerts'[Len(alerts')].candle_id = loc[l].candle_id
                   /\ alerts'[Len(alerts')].telegram_sent = loc[l].telegram_sent
            /\ (pc[l] = "history" /\ pc'[l] # pc[l]) =>
                   Len(alerts_history') = Len(alerts_history) + 1 ]_vars

\* C19 witness: a candle is recorded with alert_sent = true, with its
\* AlertRecord and its history entry, after a delivery that failed.
C19_Witness ==
    \E c \in CandleIds :
        /\ processed_candles[c] # NoRow
        /\ processed_candles[c].alert_sent
        /\ HasHistory(c)
        /\ \E i \in 1..Len(alerts) :
              alerts[i].candle_id = c /\ ~alerts[i].telegram_sent

\* Positions of a thread inside a cycle, its sleep included.
InCycle == Processing \cup { "sleep" }

\* C20: under fair scheduling with a working ledger, every candle_id a poll
\* derives is eventually stored as processed, every cycle a thread is in
\* eventually ends with the thread back at its test of the flag, and a thread
\* at that test with the flag set begins its next cycle.
C20_Progress ==
    /\ \A l \in Loops, c \in CandleIds :
         (pc[l] = "dedup" /\ loc[l].candle_id = c) ~> (processed_candles[c] # NoRow)
    /\ \A l \in Loops : (pc[l] \in InCycle) ~> (pc[l] = "top")
    /\ \A l \in Loops :
         (pc[l] = "top" /\ is_monitoring /\ cycles < MaxCycles) ~> (pc[l] \in InCycle)

\* C20 witness: the loop is back at its test of the flag after its second
\* cycle, with both instruments' candles stored, one after a notification.
C20_Witness ==
    \E l \in Loops :
        /\ pc[l] = "top"
        /\ cycles = MaxCycles
        /\ \A c \in CandleIds : processed_candles[c] # NoRow
        /\ \E c \in CandleIds : notified[c] = 1

====
